---- MODULE Spec2Model ----
(***************************************************************************)
(* Model of the spatial allocation engine of src/app.py: the orientation   *)
(* selector, the free-rectangle face packer, the zone allocator (alone,    *)
(* with a log file that cannot be written, and as two concurrent calls),   *)
(* the rearrangement differ and the retrieval planner of search_item.      *)
(*                                                                         *)
(* Python values are modelled as follows.  A dict with fixed keys is a     *)
(* record, a list is a sequence, a tuple is a sequence.  A value that may  *)
(* be None is an "optional": the empty sequence << >> is None and <<v>> is *)
(* the value v.  Coordinates are integers (the code computes with the      *)
(* numbers it is given; 0.0 is modelled as 0).                             *)
(***************************************************************************)
EXTENDS Integers, Sequences, FiniteSets, TLC

\* ------------------------------------------------------------------------
\* Bounds of the model
\* ------------------------------------------------------------------------

\* the dimensions an item or a container depth is drawn from
Dims == {1, 2}
\* the priorities an item is drawn from
Priorities == {1, 2}
\* the zone labels
Zones == {"A", "B"}
\* number of items in a batch handed to place_items_optimally
MaxItems == 3
\* largest item dimension and container depth handed to get_best_orientation
MaxOrientDim == 3
\* number of placements in a snapshot handed to generate_rearrangements
MaxSnapshot == 2
\* the item identifiers of the snapshots
SnapshotItemIds == {1, 2, 3}
\* the container identifiers of the snapshots
SnapshotContainerIds == {"C1", "C2"}
\* largest width/height of a container face drawn for the face packer
MaxFace == 3
\* number of items handed to one pack_open_face_in_container call
MaxPackItems == 4

\* the most items of a batch allocated while logs.json may fail to be written
MaxLogFailItems == 2

\* the most items of the batch of each of the concurrent invocations
MaxConcItems == 2

\* the most free rectangles of the list find_position_for_rect is called on
MaxFreeRects == 3

\* the most placements placement.json holds when an item is searched
MaxSearchPlacements == 3

None == << >>

Some(v) == << v >>

\* ------------------------------------------------------------------------
\* Placement algorithm helper functions
\* ------------------------------------------------------------------------

\* orientations = [{w,h,d,area}, ...] (the three candidates, in list order)
orientations(item) ==
    LET w == item.width
        h == item.height
        d == item.depth
    IN << [w |-> w, h |-> h, d |-> d, area |-> w * h],
          [w |-> w, h |-> d, d |-> h, area |-> w * d],
          [w |-> h, h |-> d, d |-> w, area |-> h * d] >>

\* fitting = [o for o in orientations if o["d"] <= container_depth]
fitting(item, container_depth) ==
    LET fits(o) == o.d <= container_depth
    IN SelectSeq(orientations(item), fits)

\* a wrong min: the last element whose key is minimal
min_by_area_last(seq) ==
    LET i == CHOOSE k \in 1..Len(seq) :
                 /\ \A j \in 1..Len(seq) : seq[k].area <= seq[j].area
                 /\ \A j \in (k + 1)..Len(seq) : seq[j].area > seq[k].area
    IN seq[i]

\* Python's min(seq, key): the first element whose key is minimal
min_by_area(seq) ==
    LET i == CHOOSE k \in 1..Len(seq) :
                 /\ \A j \in 1..Len(seq) : seq[k].area <= seq[j].area
                 /\ \A j \in 1..(k - 1) : seq[j].area > seq[k].area
    IN seq[i]

\* a selector that tries only the orientation the item is given in
get_best_orientation_asgiven(item, container_depth) ==
    IF item.depth <= container_depth
    THEN << item.width, item.height, item.depth >>
    ELSE None

get_best_orientation(item, container_depth) ==
    LET fit == fitting(item, container_depth)
    IN IF fit = << >>
       THEN None
       ELSE LET best == min_by_area(fit)
            IN << best.w, best.h, best.d >>

Rect(x, y, w, h) == [x |-> x, y |-> y, w |-> w, h |-> h]

Max2(a, b) == IF a >= b THEN a ELSE b

Min2(a, b) == IF a <= b THEN a ELSE b

\* a split that keeps the free rectangle whole, even under the placed one
split_free_rectangle_keep(fr, pr) == << fr >>

\* a split that forgets the strip above the intersection
split_free_rectangle_no_top(fr, pr) ==
    LET ix == Max2(fr.x, pr.x)
        iy == Max2(fr.y, pr.y)
        i_right == Min2(fr.x + fr.w, pr.x + pr.w)
        i_top == Min2(fr.y + fr.h, pr.y + pr.h)
        left == IF ix > fr.x
                THEN << Rect(fr.x, fr.y, ix - fr.x, fr.h) >> ELSE << >>
        right == IF i_right < fr.x + fr.w
                 THEN << Rect(i_right, fr.y, (fr.x + fr.w) - i_right, fr.h) >>
                 ELSE << >>
        bottom == IF iy > fr.y
                  THEN << Rect(fr.x, fr.y, fr.w, iy - fr.y) >> ELSE << >>
    IN IF i_right <= ix \/ i_top <= iy
       THEN << fr >>
       ELSE left \o right \o bottom

split_free_rectangle(fr, pr) ==
    LET ix == Max2(fr.x, pr.x)
        iy == Max2(fr.y, pr.y)
        i_right == Min2(fr.x + fr.w, pr.x + pr.w)
        i_top == Min2(fr.y + fr.h, pr.y + pr.h)
        left == IF ix > fr.x
                THEN << Rect(fr.x, fr.y, ix - fr.x, fr.h) >> ELSE << >>
        right == IF i_right < fr.x + fr.w
                 THEN << Rect(i_right, fr.y, (fr.x + fr.w) - i_right, fr.h) >>
                 ELSE << >>
        top == IF i_top < fr.y + fr.h
               THEN << Rect(fr.x, i_top, fr.w, (fr.y + fr.h) - i_top) >>
               ELSE << >>
        bottom == IF iy > fr.y
                  THEN << Rect(fr.x, fr.y, fr.w, iy - fr.y) >> ELSE << >>
        positive(r) == r.w > 0 /\ r.h > 0
    IN IF i_right <= ix \/ i_top <= iy
       THEN << fr >>
       ELSE SelectSeq(left \o right \o top \o bottom, positive)

\* the containment test of prune_free_rectangles: r1 inside or equal to r2
contained_in(r1, r2) ==
    /\ r1.x >= r2.x
    /\ r1.y >= r2.y
    /\ r1.x + r1.w <= r2.x + r2.w
    /\ r1.y + r1.h <= r2.y + r2.h

RECURSIVE prune_scan(_, _)
prune_scan(free_rects, i) ==
    IF i > Len(free_rects)
    THEN << >>
    ELSE LET contained == \E j \in 1..Len(free_rects) :
                              j /= i /\ contained_in(free_rects[i], free_rects[j])
         IN (IF contained THEN << >> ELSE << free_rects[i] >>)
            \o prune_scan(free_rects, i + 1)

\* a prune that discards nothing
prune_free_rectangles_none(free_rects) == free_rects

\* a prune whose containment test also compares a rectangle with itself
prune_free_rectangles_self(free_rects) ==
    LET kept(r) == \A j \in 1..Len(free_rects) : ~contained_in(r, free_rects[j])
    IN SelectSeq(free_rects, kept)

prune_free_rectangles(free_rects) == prune_scan(free_rects, 1)

NoPosition == [best_rect |-> None, best_x |-> None, best_y |-> None,
               best_score |-> None]

\* a scan where a later rectangle of equal leftover replaces the best so far
RECURSIVE find_position_scan_last(_, _, _, _, _)
find_position_scan_last(free_rects, rw, rh, i, best) ==
    IF i > Len(free_rects)
    THEN best
    ELSE LET fr == free_rects[i]
             leftover == fr.w * fr.h - rw * rh
             better == /\ fr.w >= rw
                       /\ fr.h >= rh
                       /\ (best.best_score = None \/ leftover <= best.best_score[1])
         IN find_position_scan_last(free_rects, rw, rh, i + 1,
                IF better
                THEN [best_rect |-> Some(fr), best_x |-> Some(fr.x),
                      best_y |-> Some(fr.y), best_score |-> Some(leftover)]
                ELSE best)

RECURSIVE find_position_scan(_, _, _, _, _)
find_position_scan(free_rects, rw, rh, i, best) ==
    IF i > Len(free_rects)
    THEN best
    ELSE LET fr == free_rects[i]
             leftover == fr.w * fr.h - rw * rh
             better == /\ fr.w >= rw
                       /\ fr.h >= rh
                       /\ (best.best_score = None \/ leftover < best.best_score[1])
         IN find_position_scan(free_rects, rw, rh, i + 1,
                IF better
                THEN [best_rect |-> Some(fr), best_x |-> Some(fr.x),
                      best_y |-> Some(fr.y), best_score |-> Some(leftover)]
                ELSE best)

find_position_for_rect(free_rects, rw, rh) ==
    find_position_scan(free_rects, rw, rh, 1, NoPosition)

\* new_free = []; for r in free_rects: new_free.extend(split_free_rectangle(r, placed_rect))
RECURSIVE split_all(_, _, _)
split_all(free_rects, placed_rect, i) ==
    IF i > Len(free_rects)
    THEN << >>
    ELSE split_free_rectangle(free_rects[i], placed_rect)
         \o split_all(free_rects, placed_rect, i + 1)

\* the placement document built for an item put at (px, py)
placement_doc(cid, itemId, px, py, rw, rh, rd) ==
    [containerId |-> cid,
     itemId |-> itemId,
     position |->
        [startCoordinates |-> [width |-> px, depth |-> 0, height |-> py],
         endCoordinates |-> [width |-> px + rw, depth |-> rd, height |-> py + rh]]]

\* ------------------------------------------------------------------------
\* Zone allocator: pure steps of place_items_optimally
\* ------------------------------------------------------------------------

\* the zones in the order of their first item (the key order of zone_to_items)
RECURSIVE zone_order(_)
zone_order(items) ==
    IF items = << >>
    THEN << >>
    ELSE LET z == items[1].preferredZone
             other(it) == it.preferredZone /= z
         IN << z >> \o zone_order(SelectSeq(Tail(items), other))

\* zone_to_items.setdefault(z, []).append(it), for every item in input order
zone_to_items_of(items) ==
    LET zo == zone_order(items)
    IN [k \in 1..Len(zo) |->
           LET inzone(it) == it.preferredZone = zo[k]
           IN [zone |-> zo[k], items |-> SelectSeq(items, inzone)]]

RemoveAt(seq, i) == SubSeq(seq, 1, i - 1) \o SubSeq(seq, i + 1, Len(seq))

\* a sort that puts the lowest priority first
RECURSIVE sort_priority_ascending(_)
sort_priority_ascending(items_list) ==
    IF items_list = << >>
    THEN << >>
    ELSE LET i == CHOOSE k \in 1..Len(items_list) :
                      /\ \A j \in 1..Len(items_list) :
                             items_list[k].priority <= items_list[j].priority
                      /\ \A j \in 1..(k - 1) :
                             items_list[j].priority > items_list[k].priority
         IN << items_list[i] >> \o sort_priority_ascending(RemoveAt(items_list, i))

\* a descending sort that is not stable: ties come out in reverse input order
RECURSIVE sort_priority_unstable(_)
sort_priority_unstable(items_list) ==
    IF items_list = << >>
    THEN << >>
    ELSE LET i == CHOOSE k \in 1..Len(items_list) :
                      /\ \A j \in 1..Len(items_list) :
                             items_list[k].priority >= items_list[j].priority
                      /\ \A j \in (k + 1)..Len(items_list) :
                             items_list[j].priority < items_list[k].priority
         IN << items_list[i] >> \o sort_priority_unstable(RemoveAt(items_list, i))

\* items_list.sort(key=priority, reverse=True): descending and stable
RECURSIVE sort_priority_stable(_)
sort_priority_stable(items_list) ==
    IF items_list = << >>
    THEN << >>
    ELSE LET i == CHOOSE k \in 1..Len(items_list) :
                      /\ \A j \in 1..Len(items_list) :
                             items_list[k].priority >= items_list[j].priority
                      /\ \A j \in 1..(k - 1) :
                             items_list[j].priority < items_list[k].priority
         IN << items_list[i] >> \o sort_priority_stable(RemoveAt(items_list, i))

sort_by_priority(items_list) == sort_priority_stable(items_list)

\* the containers left in the order of the input
sort_by_containerId_unsorted(c_list) == c_list

\* c_list.sort(key=lambda c: c["containerId"])
RECURSIVE sort_by_containerId(_)
sort_by_containerId(c_list) ==
    IF c_list = << >>
    THEN << >>
    ELSE LET i == CHOOSE k \in 1..Len(c_list) :
                      /\ \A j \in 1..Len(c_list) :
                             c_list[k].containerId <= c_list[j].containerId
                      /\ \A j \in 1..(k - 1) :
                             c_list[j].containerId > c_list[k].containerId
         IN << c_list[i] >> \o sort_by_containerId(RemoveAt(c_list, i))

\* c_list of a zone, sorted, and the fresh container_face_data built from it
\* (a dict keyed by containerId in insertion order: a sequence of entries)
container_face_data_of(containers, zone) ==
    LET inzone(c) == c.zone = zone
        c_list == sort_by_containerId(SelectSeq(containers, inzone))
    IN [k \in 1..Len(c_list) |->
           [cid |-> c_list[k].containerId,
            container |-> c_list[k],
            free_rects |-> << Rect(0, 0, c_list[k].width, c_list[k].height) >>,
            placements |-> << >>]]

\* the body of "for cid, d_item in container_face_data.items()" for one item,
\* from entry c on: the first container that takes the item, if any
RECURSIVE place_scan(_, _, _)
place_scan(face_data, item, c) ==
    IF c > Len(face_data)
    THEN [placed |-> FALSE, face_data |-> face_data, pdoc |-> None]
    ELSE LET d_item == face_data[c]
             orient == get_best_orientation(item, d_item.container.depth)
         IN IF orient = None
            THEN place_scan(face_data, item, c + 1)
            ELSE LET rw == orient[1]
                     rh == orient[2]
                     rd == orient[3]
                     pos == find_position_for_rect(d_item.free_rects, rw, rh)
                 IN IF pos.best_rect = None
                    THEN place_scan(face_data, item, c + 1)
                    ELSE LET px == pos.best_x[1]
                             py == pos.best_y[1]
                             pdoc == placement_doc(d_item.cid, item.itemId,
                                                   px, py, rw, rh, rd)
                             placed_rect == Rect(px, py, rw, rh)
                             new_free == split_all(d_item.free_rects, placed_rect, 1)
                         IN [placed |-> TRUE,
                             face_data |->
                                [face_data EXCEPT ![c] =
                                    [@ EXCEPT !.placements = Append(@, pdoc),
                                              !.free_rects =
                                                  prune_free_rectangles(new_free)]],
                             pdoc |-> Some(pdoc)]

place_item(face_data, item) == place_scan(face_data, item, 1)

\* for cid, d_item in container_face_data.items(): extend with its placements
RECURSIVE face_placements(_, _)
face_placements(face_data, c) ==
    IF c > Len(face_data)
    THEN << >>
    ELSE face_data[c].placements \o face_placements(face_data, c + 1)

\* the pair place_items_optimally returns (lines 202-203)
returned_pair(placed, unplaced_items) ==
    LET rearrangements == << >>
    IN << placed, rearrangements >>

\* "for item in items_list" from item i on: the face data and the remaining
\* list after the last item
RECURSIVE allocate_items(_, _, _, _)
allocate_items(face_data, items, i, rem) ==
    IF i > Len(items)
    THEN [face_data |-> face_data, remaining |-> rem]
    ELSE LET r == place_item(face_data, items[i])
         IN IF r.placed
            THEN allocate_items(r.face_data, items, i + 1, rem)
            ELSE allocate_items(face_data, items, i + 1, Append(rem, items[i]))

\* "for zone, items_list in zone_to_items.items()" from zone z on
RECURSIVE allocate_zones(_, _, _, _, _)
allocate_zones(containers, zones, z, placed, unplaced_items) ==
    IF z > Len(zones)
    THEN returned_pair(placed, unplaced_items)
    ELSE LET r == allocate_items(container_face_data_of(containers, zones[z].zone),
                                 sort_by_priority(zones[z].items), 1, << >>)
         IN allocate_zones(containers, zones, z + 1,
                           placed \o face_placements(r.face_data, 1),
                           unplaced_items \o r.remaining)

\* place_items_optimally as a function of its argument (the log writes aside)
place_items_optimally(batch) ==
    allocate_zones(batch.containers, zone_to_items_of(batch.items), 1, << >>, << >>)

\* the log entry record_log builds (the timestamp is left out)
log_entry(user_id, action_type, item_id, from_container, to_container, reason) ==
    [userId |-> user_id, actionType |-> action_type, itemId |-> item_id,
     details |-> [fromContainer |-> from_container, toContainer |-> to_container,
                  reason |-> reason]]

placement_log(itemId, cid) ==
    log_entry("system", "NEW_PLACEMENT", itemId, "NONE", cid, "Placed on open face.")

\* ------------------------------------------------------------------------
\* generate_rearrangements(old_placements, new_placements)
\* ------------------------------------------------------------------------

\* the keys of {p["itemId"]: p for p in placements}, in insertion order
RECURSIVE dict_keys(_)
dict_keys(snapshot) ==
    IF snapshot = << >>
    THEN << >>
    ELSE LET id == snapshot[1].itemId
             other(p) == p.itemId /= id
         IN << id >> \o dict_keys(SelectSeq(Tail(snapshot), other))

\* {p["itemId"]: p for p in placements}: one entry per key, in insertion
\* order, holding the last placement given for the key
dict_by_itemId(snapshot) ==
    LET keys == dict_keys(snapshot)
    IN [k \in 1..Len(keys) |->
           LET last == CHOOSE i \in 1..Len(snapshot) :
                           /\ snapshot[i].itemId = keys[k]
                           /\ \A j \in (i + 1)..Len(snapshot) :
                                  snapshot[j].itemId /= keys[k]
           IN snapshot[last]]

\* itemId in d
has_key(d, itemId) == \E k \in 1..Len(d) : d[k].itemId = itemId

\* d[itemId]
lookup(d, itemId) == d[CHOOSE k \in 1..Len(d) : d[k].itemId = itemId]

ZeroPosition ==
    [startCoordinates |-> [width |-> 0, depth |-> 0, height |-> 0],
     endCoordinates |-> [width |-> 0, depth |-> 0, height |-> 0]]

rearrangement(step, action, itemId, fromContainer, fromPosition, toContainer, toPosition) ==
    [step |-> step, action |-> action, itemId |-> itemId,
     fromContainer |-> fromContainer, fromPosition |-> fromPosition,
     toContainer |-> toContainer, toPosition |-> toPosition]

\* a first pass that writes the old container and box as the destination of a move
RECURSIVE new_pass_stale_move(_, _, _, _)
new_pass_stale_move(old_dict, new_dict, i, acc) ==
    IF i > Len(new_dict)
    THEN acc
    ELSE LET newp == new_dict[i]
             step == Len(acc) + 1
         IN IF has_key(old_dict, newp.itemId)
            THEN LET oldp == lookup(old_dict, newp.itemId)
                 IN IF oldp.containerId /= newp.containerId
                       \/ oldp.position /= newp.position
                    THEN new_pass_stale_move(old_dict, new_dict, i + 1,
                             Append(acc, rearrangement(step, "move", newp.itemId,
                                        oldp.containerId, oldp.position,
                                        oldp.containerId, oldp.position)))
                    ELSE new_pass_stale_move(old_dict, new_dict, i + 1, acc)
            ELSE new_pass_stale_move(old_dict, new_dict, i + 1,
                     Append(acc, rearrangement(step, "place", newp.itemId,
                                "NONE", ZeroPosition,
                                newp.containerId, newp.position)))

\* lines 210-237: "for itemId, newp in new_dict.items()" from entry i on; the
\* step counter is one more than the number of steps emitted so far
RECURSIVE new_pass_scan(_, _, _, _)
new_pass_scan(old_dict, new_dict, i, acc) ==
    IF i > Len(new_dict)
    THEN acc
    ELSE LET newp == new_dict[i]
             step == Len(acc) + 1
         IN IF has_key(old_dict, newp.itemId)
            THEN LET oldp == lookup(old_dict, newp.itemId)
                 IN IF oldp.containerId /= newp.containerId
                       \/ oldp.position /= newp.position
                    THEN new_pass_scan(old_dict, new_dict, i + 1,
                             Append(acc, rearrangement(step, "move", newp.itemId,
                                        oldp.containerId, oldp.position,
                                        newp.containerId, newp.position)))
                    ELSE new_pass_scan(old_dict, new_dict, i + 1, acc)
            ELSE new_pass_scan(old_dict, new_dict, i + 1,
                     Append(acc, rearrangement(step, "place", newp.itemId,
                                "NONE", ZeroPosition,
                                newp.containerId, newp.position)))

new_pass(old_dict, new_dict, acc) == new_pass_scan(old_dict, new_dict, 1, acc)

\* lines 238-252: "for itemId, oldp in old_dict.items()" from entry i on
RECURSIVE old_pass_scan(_, _, _, _)
old_pass_scan(old_dict, new_dict, i, acc) ==
    IF i > Len(old_dict)
    THEN acc
    ELSE LET oldp == old_dict[i]
             step == Len(acc) + 1
         IN IF ~has_key(new_dict, oldp.itemId)
            THEN old_pass_scan(old_dict, new_dict, i + 1,
                     Append(acc, rearrangement(step, "remove", oldp.itemId,
                                oldp.containerId, oldp.position,
                                "NONE", ZeroPosition)))
            ELSE old_pass_scan(old_dict, new_dict, i + 1, acc)

old_pass(old_dict, new_dict, acc) == old_pass_scan(old_dict, new_dict, 1, acc)

\* a differ that emits the removals before the placements and moves
generate_rearrangements_removes_first(old_placements, new_placements) ==
    LET old_dict == dict_by_itemId(old_placements)
        new_dict == dict_by_itemId(new_placements)
    IN new_pass(old_dict, new_dict, old_pass(old_dict, new_dict, << >>))

\* a differ whose first pass writes a stale destination into its move steps
generate_rearrangements_stale_move(old_placements, new_placements) ==
    LET old_dict == dict_by_itemId(old_placements)
        new_dict == dict_by_itemId(new_placements)
    IN old_pass(old_dict, new_dict,
                new_pass_stale_move(old_dict, new_dict, 1, << >>))

\* a differ that never finds an item of the new snapshot in the old one
generate_rearrangements_ignores_old(old_placements, new_placements) ==
    LET old_dict == dict_by_itemId(old_placements)
        new_dict == dict_by_itemId(new_placements)
    IN old_pass(old_dict, new_dict, new_pass(<< >>, new_dict, << >>))

generate_rearrangements(old_placements, new_placements) ==
    LET old_dict == dict_by_itemId(old_placements)
        new_dict == dict_by_itemId(new_placements)
    IN old_pass(old_dict, new_dict, new_pass(old_dict, new_dict, << >>))

\* ------------------------------------------------------------------------
\* search_item: the retrieval planner
\* ------------------------------------------------------------------------

\* lines 316-320: the first placement whose itemId is the identifier (the
\* placements of placement.json carry no "name" key, so p.get("name") is None
\* and never equals the identifier)
find_target(placement_list, search_identifier) ==
    LET RECURSIVE scan(_)
        scan(k) ==
            IF k > Len(placement_list) THEN None
            ELSE IF placement_list[k].itemId = search_identifier
                 THEN Some(placement_list[k])
                 ELSE scan(k + 1)
    IN scan(1)

\* a blocking test that also counts a placement that only touches an edge
is_blocking_touching(p, target) ==
    /\ p.containerId = target.containerId
    /\ p.itemId /= target.itemId
    /\ p.position.startCoordinates.depth = 0
    /\ LET t_x == target.position.startCoordinates.width
           t_y == target.position.startCoordinates.height
           t_w == target.position.endCoordinates.width - t_x
           t_h == target.position.endCoordinates.height - t_y
           p_x == p.position.startCoordinates.width
           p_y == p.position.startCoordinates.height
           p_w == p.position.endCoordinates.width - p_x
           p_h == p.position.endCoordinates.height - p_y
       IN /\ p_x <= t_x + t_w
          /\ p_x + p_w >= t_x
          /\ p_y <= t_y + t_h
          /\ p_y + p_h >= t_y

\* lines 349-357: the conditions under which p is appended to blocking_items
is_blocking(p, target) ==
    /\ p.containerId = target.containerId
    /\ p.itemId /= target.itemId
    /\ p.position.startCoordinates.depth = 0
    /\ LET t_x == target.position.startCoordinates.width
           t_y == target.position.startCoordinates.height
           t_w == target.position.endCoordinates.width - t_x
           t_h == target.position.endCoordinates.height - t_y
           p_x == p.position.startCoordinates.width
           p_y == p.position.startCoordinates.height
           p_w == p.position.endCoordinates.width - p_x
           p_h == p.position.endCoordinates.height - p_y
       IN /\ p_x < t_x + t_w
          /\ p_x + p_w > t_x
          /\ p_y < t_y + t_h
          /\ p_y + p_h > t_y

\* lines 343-358: blocking_items, in the order of the placement list
blocking_items_of(placement_list, target) ==
    LET RECURSIVE scan(_)
        scan(k) ==
            IF k > Len(placement_list) THEN << >>
            ELSE IF is_blocking(placement_list[k], target)
                 THEN << placement_list[k] >> \o scan(k + 1)
                 ELSE scan(k + 1)
    IN scan(1)

\* found_name / block_name: name or itemName of the placement, else "Unknown"
name_of(p) == "Unknown"

retrieval_step(step, action, placeBack, p) ==
    [step |-> step, action |-> action, placeBack |-> placeBack,
     itemId |-> p.itemId, itemName |-> name_of(p)]

\* lines 332-376: retrieval_steps for a found target
retrieval_steps_of(placement_list, target) ==
    IF target.position.startCoordinates.depth = 0
    THEN << retrieval_step(0, "retrieve", FALSE, target) >>
    ELSE LET blocking_items == blocking_items_of(placement_list, target)
         IN [k \in 1..Len(blocking_items) |->
                retrieval_step(k, "remove", TRUE, blocking_items[k])]
            \o << retrieval_step(Len(blocking_items) + 1, "retrieve", FALSE, target) >>

search_log(search_identifier, reason) ==
    log_entry("system", "SEARCH_ITEM", search_identifier, "N/A", "N/A", reason)

\* ------------------------------------------------------------------------
\* State
\* ------------------------------------------------------------------------

VARIABLES
    \* pack_open_face_in_container: its argument and its locals
    container, free_rects, placements, unplaced, pack_pc,
    \* place_items_optimally: its argument, its locals, and where it stands
    data, zone_to_items, zone_idx, items_list, item_idx, container_face_data,
    remaining, all_open_face_placements, unplaced_global, alloc_result, alloc_pc,
    \* the in-memory log list and the log list persisted in logs.json
    LOGS, logs_json,
    \* get_best_orientation: its arguments and what it returned
    orient_item, orient_depth, orient_result, orient_pc,
    \* generate_rearrangements: its arguments and what it returned
    old_placements, new_placements, rearrangements, diff_pc,
    \* search_item: the query arguments, placement.json and the response
    search_args, placement_json, search_response, search_pc,
    \* the concurrent invocations of place_items_optimally: the argument, the
    \* locals and the position of each
    calls,
    \* find_position_for_rect: its arguments and what it returned
    find_free_rects, find_rw, find_rh, find_result, find_pc

pack_vars == << container, free_rects, placements, unplaced, pack_pc >>

alloc_vars == << data, zone_to_items, zone_idx, items_list, item_idx,
                 container_face_data, remaining, all_open_face_placements,
                 unplaced_global, alloc_result, alloc_pc >>

log_vars == << LOGS, logs_json >>

orient_vars == << orient_item, orient_depth, orient_result, orient_pc >>

diff_vars == << old_placements, new_placements, rearrangements, diff_pc >>

search_vars == << search_args, placement_json, search_response, search_pc >>

conc_vars == << calls >>

find_vars == << find_free_rects, find_rw, find_rh, find_result, find_pc >>

vars == << pack_vars, alloc_vars, log_vars, orient_vars, diff_vars, search_vars, conc_vars, find_vars >>

\* the values of the variables of an operation that is not running
PackIdle ==
    /\ container = << >>
    /\ free_rects = << >>
    /\ placements = << >>
    /\ unplaced = << >>
    /\ pack_pc = "idle"

AllocIdle ==
    /\ data = << >>
    /\ zone_to_items = << >>
    /\ zone_idx = 0
    /\ items_list = << >>
    /\ item_idx = 0
    /\ container_face_data = << >>
    /\ remaining = << >>
    /\ all_open_face_placements = << >>
    /\ unplaced_global = << >>
    /\ alloc_result = << >>
    /\ alloc_pc = "idle"

LogInit ==
    /\ LOGS = << >>
    /\ logs_json = << >>

OrientIdle ==
    /\ orient_item = << >>
    /\ orient_depth = 0
    /\ orient_result = << >>
    /\ orient_pc = "idle"

DiffIdle ==
    /\ old_placements = << >>
    /\ new_placements = << >>
    /\ rearrangements = << >>
    /\ diff_pc = "idle"

SearchIdle ==
    /\ search_args = << >>
    /\ placement_json = << >>
    /\ search_response = << >>
    /\ search_pc = "idle"

ConcIdle == calls = << >>

FindIdle ==
    /\ find_free_rects = << >>
    /\ find_rw = 0
    /\ find_rh = 0
    /\ find_result = << >>
    /\ find_pc = "idle"

\* ------------------------------------------------------------------------
\* pack_open_face_in_container(container, items)
\* ------------------------------------------------------------------------

PackContainers ==
    { [containerId |-> 1, zone |-> "A", width |-> W, height |-> H, depth |-> D] :
        W \in 1..MaxFace, H \in 1..MaxFace, D \in Dims }

PackItems(itemId) ==
    { [itemId |-> itemId, width |-> w, height |-> h, depth |-> d] :
        w \in Dims, h \in Dims, d \in Dims }

PackInit ==
    /\ container \in PackContainers
    /\ free_rects = << Rect(0, 0, container.width, container.height) >>
    /\ placements = << >>
    /\ unplaced = << >>
    /\ pack_pc = "loop"
    /\ AllocIdle
    /\ LogInit
    /\ OrientIdle
    /\ DiffIdle
    /\ SearchIdle
    /\ ConcIdle
    /\ FindIdle

\* one iteration of "for item in items" on the next item of the list
PackItem(item) ==
    /\ pack_pc = "loop"
    /\ Len(placements) + Len(unplaced) < MaxPackItems
    /\ LET orient == get_best_orientation(item, container.depth)
       IN IF orient = None
          THEN /\ unplaced' = Append(unplaced, item)
               /\ UNCHANGED << placements, free_rects >>
          ELSE LET rw == orient[1]
                   rh == orient[2]
                   rd == orient[3]
                   pos == find_position_for_rect(free_rects, rw, rh)
               IN IF pos.best_rect = None
                  THEN /\ unplaced' = Append(unplaced, item)
                       /\ UNCHANGED << placements, free_rects >>
                  ELSE LET px == pos.best_x[1]
                           py == pos.best_y[1]
                           placed_rect == Rect(px, py, rw, rh)
                           new_free == split_all(free_rects, placed_rect, 1)
                       IN /\ placements' = Append(placements,
                                 placement_doc(container.containerId, item.itemId,
                                               px, py, rw, rh, rd))
                          /\ free_rects' = prune_free_rectangles(new_free)
                          /\ UNCHANGED unplaced
    /\ UNCHANGED << container, pack_pc, alloc_vars, log_vars, orient_vars, diff_vars, search_vars, conc_vars, find_vars >>

\* the list is exhausted: return placements, unplaced
PackReturn ==
    /\ pack_pc = "loop"
    /\ pack_pc' = "done"
    /\ UNCHANGED << container, free_rects, placements, unplaced >>
    /\ UNCHANGED << alloc_vars, log_vars, orient_vars, diff_vars, search_vars, conc_vars, find_vars >>

PackNext ==
    \/ \E item \in PackItems(Len(placements) + Len(unplaced) + 1) : PackItem(item)
    \/ PackReturn

SpecPack == PackInit /\ [][PackNext]_vars

\* ------------------------------------------------------------------------
\* place_items_optimally(data)
\* ------------------------------------------------------------------------

Container(cid, zone, W, H, D) ==
    [containerId |-> cid, zone |-> zone, width |-> W, height |-> H, depth |-> D]

Item(itemId, w, h, d, zone, priority) ==
    [itemId |-> itemId, width |-> w, height |-> h, depth |-> d,
     preferredZone |-> zone, priority |-> priority]

\* the item shapes (width, height, depth) of the batches
AllocShapes == { <<1, 1, 1>>, <<2, 1, 1>>, <<2, 2, 1>>, <<2, 2, 2>> }

\* the container inventories of the batches, in the order the caller gives them:
\* one tight container; two containers of one zone given out of identifier
\* order, the first by identifier shallow; containers of both zones
Inventories ==
    { << Container(1, "A", 2, 1, 1) >>,
      << Container(2, "A", 2, 2, 2), Container(1, "A", 1, 2, 1) >>,
      << Container(3, "B", 2, 1, 2), Container(1, "A", 2, 2, 1),
         Container(2, "B", 1, 1, 1) >> }

\* the item list of a batch: item i has the shape, zone and priority choice[i]
\* and the identifier i
ItemList(n, choice) ==
    [i \in 1..n |-> Item(i, choice[i][1][1], choice[i][1][2], choice[i][1][3],
                         choice[i][2], choice[i][3])]

\* the batch of the specification's example: container C (100 x 100 x 50) of
\* zone "Z", item A (30, 40, 20) of priority 5 and item B (50, 50, 10) of
\* priority 3 (A has itemId 1 and B has itemId 2)
ExampleData ==
    [items |-> << Item(1, 30, 40, 20, "Z", 5), Item(2, 50, 50, 10, "Z", 3) >>,
     containers |-> << Container(1, "Z", 100, 100, 50) >>]

\* the argument is one of the batches: up to MaxItems items of any shape, zone
\* and priority with one of the inventories, or the example batch
BatchInit(max_items) ==
    /\ \/ \E n \in 0..max_items :
              \E choice \in [1..n -> AllocShapes \X Zones \X Priorities] :
                  \E inv \in Inventories :
                      data = [items |-> ItemList(n, choice), containers |-> inv]
       \/ data = ExampleData
    /\ zone_to_items = << >>
    /\ zone_idx = 0
    /\ items_list = << >>
    /\ item_idx = 0
    /\ container_face_data = << >>
    /\ remaining = << >>
    /\ all_open_face_placements = << >>
    /\ unplaced_global = << >>
    /\ alloc_result = << >>
    /\ alloc_pc = "group"
    /\ PackIdle
    /\ LogInit
    /\ OrientIdle
    /\ DiffIdle
    /\ SearchIdle
    /\ ConcIdle
    /\ FindIdle

AllocInit == BatchInit(MaxItems)

\* record_log: LOGS.append(log_entry); append_log_to_file(log_entry), which
\* loads logs.json, appends the entry and saves the file
record_log(entry) ==
    /\ LOGS' = Append(LOGS, entry)
    /\ logs_json' = Append(logs_json, entry)

\* lines 150-156: group the items by preferredZone
AllocGroup ==
    /\ alloc_pc = "group"
    /\ zone_to_items' = zone_to_items_of(data.items)
    /\ zone_idx' = 1
    /\ alloc_pc' = "zone"
    /\ UNCHANGED << data, items_list, item_idx, container_face_data, remaining,
                    all_open_face_placements, unplaced_global, alloc_result >>
    /\ UNCHANGED << pack_vars, log_vars, orient_vars, diff_vars, search_vars, conc_vars, find_vars >>

\* lines 157-169: enter the next zone: sort its items, build its face data
AllocZone ==
    /\ alloc_pc = "zone"
    /\ zone_idx <= Len(zone_to_items)
    /\ items_list' = sort_by_priority(zone_to_items[zone_idx].items)
    /\ container_face_data' =
           container_face_data_of(data.containers, zone_to_items[zone_idx].zone)
    /\ remaining' = << >>
    /\ item_idx' = 1
    /\ alloc_pc' = "item"
    /\ UNCHANGED << data, zone_to_items, zone_idx, all_open_face_placements,
                    unplaced_global, alloc_result >>
    /\ UNCHANGED << pack_vars, log_vars, orient_vars, diff_vars, search_vars, conc_vars, find_vars >>

\* lines 170-198: one iteration of "for item in items_list"
AllocItem ==
    /\ alloc_pc = "item"
    /\ item_idx <= Len(items_list)
    /\ LET item == items_list[item_idx]
           r == place_item(container_face_data, item)
       IN IF r.placed
          THEN /\ container_face_data' = r.face_data
               /\ record_log(placement_log(item.itemId, r.pdoc[1].containerId))
               /\ UNCHANGED remaining
          ELSE /\ remaining' = Append(remaining, item)
               /\ UNCHANGED << container_face_data, log_vars >>
    /\ item_idx' = item_idx + 1
    /\ UNCHANGED << data, zone_to_items, zone_idx, items_list,
                    all_open_face_placements, unplaced_global, alloc_result,
                    alloc_pc >>
    /\ UNCHANGED << pack_vars, orient_vars, diff_vars, search_vars, conc_vars, find_vars >>

\* lines 199-201: leave the zone: collect its placements and its unplaced items
AllocZoneEnd ==
    /\ alloc_pc = "item"
    /\ item_idx > Len(items_list)
    /\ all_open_face_placements' =
           all_open_face_placements \o face_placements(container_face_data, 1)
    /\ unplaced_global' = unplaced_global \o remaining
    /\ zone_idx' = zone_idx + 1
    /\ alloc_pc' = "zone"
    /\ UNCHANGED << data, zone_to_items, items_list, item_idx, container_face_data,
                    remaining, alloc_result >>
    /\ UNCHANGED << pack_vars, log_vars, orient_vars, diff_vars, search_vars, conc_vars, find_vars >>

AllocReturn ==
    /\ alloc_pc = "zone"
    /\ zone_idx > Len(zone_to_items)
    /\ alloc_result' = returned_pair(all_open_face_placements, unplaced_global)
    /\ alloc_pc' = "done"
    /\ UNCHANGED << data, zone_to_items, zone_idx, items_list, item_idx,
                    container_face_data, remaining, all_open_face_placements,
                    unplaced_global >>
    /\ UNCHANGED << pack_vars, log_vars, orient_vars, diff_vars, search_vars, conc_vars, find_vars >>

AllocNext ==
    \/ AllocGroup
    \/ AllocZone
    \/ AllocItem
    \/ AllocZoneEnd
    \/ AllocReturn

Spec == AllocInit /\ [][AllocNext]_vars

\* ------------------------------------------------------------------------
\* place_items_optimally(data) when logs.json cannot be written
\* ------------------------------------------------------------------------

LogFailInit == BatchInit(MaxLogFailItems)

\* line 188 alone: d_item["placements"].append(pdoc)
append_placement(face_data, pdoc) ==
    [c \in 1..Len(face_data) |->
        IF face_data[c].cid = pdoc.containerId
        THEN [face_data[c] EXCEPT !.placements = Append(@, pdoc)]
        ELSE face_data[c]]

\* lines 170-189 when save_json raises inside record_log (lines 22-23, called
\* from line 34, from line 49, from line 189): the placement is appended
\* (line 188) and LOGS is extended (line 48); open(filename, "w") raised and
\* logs.json is as it was, or json.dump raised after open truncated the file,
\* which load_json then reads as its default, the empty log. Nothing between
\* save_json and the caller of place_items_optimally catches the exception:
\* lines 190-203 are not run and nothing is returned
AllocItemLogFails ==
    /\ alloc_pc = "item"
    /\ item_idx <= Len(items_list)
    /\ LET item == items_list[item_idx]
           r == place_item(container_face_data, item)
       IN /\ r.placed
          /\ container_face_data' = append_placement(container_face_data, r.pdoc[1])
          /\ LOGS' = Append(LOGS, placement_log(item.itemId, r.pdoc[1].containerId))
          /\ \/ logs_json' = logs_json
             \/ logs_json' = << >>
    /\ alloc_pc' = "raised"
    /\ UNCHANGED << data, zone_to_items, zone_idx, items_list, item_idx, remaining,
                    all_open_face_placements, unplaced_global, alloc_result >>
    /\ UNCHANGED << pack_vars, orient_vars, diff_vars, search_vars, conc_vars, find_vars >>

LogFailNext ==
    \/ AllocGroup
    \/ AllocZone
    \/ AllocItem
    \/ AllocItemLogFails
    \/ AllocZoneEnd
    \/ AllocReturn

SpecLogFail == LogFailInit /\ [][LogFailNext]_vars

\* ------------------------------------------------------------------------
\* get_best_orientation(item, container_depth), called on its own
\* ------------------------------------------------------------------------

OrientInit ==
    /\ orient_item \in { [itemId |-> 1, width |-> w, height |-> h, depth |-> d] :
                           w \in 1..MaxOrientDim, h \in 1..MaxOrientDim,
                           d \in 1..MaxOrientDim }
    /\ orient_depth \in 1..MaxOrientDim
    /\ orient_result = << >>
    /\ orient_pc = "call"
    /\ PackIdle
    /\ AllocIdle
    /\ LogInit
    /\ DiffIdle
    /\ SearchIdle
    /\ ConcIdle
    /\ FindIdle

OrientCall ==
    /\ orient_pc = "call"
    /\ orient_result' = get_best_orientation(orient_item, orient_depth)
    /\ orient_pc' = "done"
    /\ UNCHANGED << orient_item, orient_depth >>
    /\ UNCHANGED << pack_vars, alloc_vars, log_vars, diff_vars, search_vars, conc_vars, find_vars >>

OrientNext == OrientCall

SpecOrient == OrientInit /\ [][OrientNext]_vars

\* ------------------------------------------------------------------------
\* generate_rearrangements(old_placements, new_placements), called on its own
\* ------------------------------------------------------------------------

\* the boxes of the snapshots' placements
SnapshotPositions ==
    { [startCoordinates |-> [width |-> x, depth |-> 0, height |-> 0],
       endCoordinates |-> [width |-> x + 1, depth |-> 1, height |-> 1]] :
        x \in {0, 1} }

SnapshotPlacements ==
    { [containerId |-> c, itemId |-> i, position |-> pos] :
        c \in SnapshotContainerIds, i \in SnapshotItemIds, pos \in SnapshotPositions }

\* the snapshots: lists of up to MaxSnapshot placements whose item
\* identifiers are unique
IsSnapshot(snap) ==
    \E n \in 0..MaxSnapshot :
        /\ snap \in [1..n -> SnapshotPlacements]
        /\ \A i, j \in 1..n : i /= j => snap[i].itemId /= snap[j].itemId

DiffInit ==
    /\ IsSnapshot(old_placements)
    /\ IsSnapshot(new_placements)
    /\ rearrangements = << >>
    /\ diff_pc = "call"
    /\ PackIdle
    /\ AllocIdle
    /\ LogInit
    /\ OrientIdle
    /\ SearchIdle
    /\ ConcIdle
    /\ FindIdle

DiffCall ==
    /\ diff_pc = "call"
    /\ rearrangements' = generate_rearrangements(old_placements, new_placements)
    /\ diff_pc' = "done"
    /\ UNCHANGED << old_placements, new_placements >>
    /\ UNCHANGED << pack_vars, alloc_vars, log_vars, orient_vars, search_vars, conc_vars, find_vars >>

DiffNext == DiffCall

SpecDiff == DiffInit /\ [][DiffNext]_vars

\* ------------------------------------------------------------------------
\* search_item(): GET /api/search
\* ------------------------------------------------------------------------

\* the boxes of the stored placements: three unit footprints, two of which
\* touch the third along an edge, and one footprint over all of them; at the
\* open face (depth-start 0) or behind it
SearchPositions ==
    { [startCoordinates |-> [width |-> r.x, depth |-> d, height |-> r.y],
       endCoordinates |-> [width |-> r.x + r.w, depth |-> d + 1, height |-> r.y + r.h]] :
        r \in { Rect(0, 0, 1, 1), Rect(1, 0, 1, 1), Rect(0, 1, 1, 1), Rect(0, 0, 2, 2) },
        d \in {0, 1} }

SearchContainerIds == {"C1", "C2"}

\* the identifier of the k-th stored placement, a string as in the query
SearchItemId(k) == ToString(k)

\* the query: itemId names a stored item or an item that is not stored ("0"),
\* or only itemName is given, or neither
SearchArgs ==
    { [itemId |-> Some(SearchItemId(k)), itemName |-> None] :
        k \in 0..MaxSearchPlacements }
    \cup { [itemId |-> None, itemName |-> None],
           [itemId |-> None, itemName |-> Some("pump")] }

\* placement.json is unreadable, or holds up to MaxSearchPlacements
\* placements with distinct item identifiers
SearchInit ==
    /\ \/ placement_json = None
       \/ \E n \in 0..MaxSearchPlacements :
              \E choice \in [1..n -> SearchContainerIds \X SearchPositions] :
                  placement_json =
                      Some([k \in 1..n |->
                               [containerId |-> choice[k][1],
                                itemId |-> SearchItemId(k),
                                position |-> choice[k][2]]])
    /\ search_args \in SearchArgs
    /\ search_response = << >>
    /\ search_pc = "call"
    /\ PackIdle
    /\ AllocIdle
    /\ LogInit
    /\ OrientIdle
    /\ DiffIdle
    /\ ConcIdle
    /\ FindIdle

\* lines 303-378: the handler; the "item" descriptor of the response is left
\* out, the plan is the retrievalSteps field
SearchCall ==
    /\ search_pc = "call"
    /\ search_pc' = "done"
    /\ IF search_args.itemId = None /\ search_args.itemName = None
       THEN /\ search_response' =
                   [status |-> 400, success |-> FALSE, found |-> FALSE,
                    message |-> "Missing itemId or itemName"]
            /\ UNCHANGED log_vars
       ELSE LET search_identifier ==
                    IF search_args.itemId /= None
                    THEN search_args.itemId[1] ELSE search_args.itemName[1]
            IN IF placement_json = None
               THEN /\ search_response' =
                           [status |-> 500, success |-> FALSE, found |-> FALSE,
                            message |-> "Placement file not found"]
                    /\ UNCHANGED log_vars
               ELSE LET placement_list == placement_json[1]
                        target == find_target(placement_list, search_identifier)
                    IN IF target = None
                       THEN /\ record_log(search_log(search_identifier,
                                              "Item not found during search"))
                            /\ search_response' =
                                   [status |-> 200, success |-> TRUE, found |-> FALSE,
                                    retrievalSteps |-> << >>]
                       ELSE /\ record_log(search_log(search_identifier,
                                              "Item found during search"))
                            /\ search_response' =
                                   [status |-> 200, success |-> TRUE, found |-> TRUE,
                                    retrievalSteps |->
                                        retrieval_steps_of(placement_list, target[1])]
    /\ UNCHANGED << search_args, placement_json >>
    /\ UNCHANGED << pack_vars, alloc_vars, orient_vars, diff_vars, conc_vars, find_vars >>

SearchNext == SearchCall

SpecSearch == SearchInit /\ [][SearchNext]_vars

\* ------------------------------------------------------------------------
\* Two invocations of place_items_optimally running concurrently
\* ------------------------------------------------------------------------

Procs == {"first", "second"}

\* the snapshot of an invocation: its own container and up to MaxConcItems
\* items of its own, one shape that fits the container's face and one that
\* does not; the item identifiers of the two invocations differ
ConcShapes == { << 1, 1, 1 >>, << 2, 2, 2 >> }

ConcFirstId(p) == IF p = "first" THEN 0 ELSE MaxConcItems

ConcInit ==
    /\ \E n \in [Procs -> 0..MaxConcItems] :
           \E shape \in [Procs -> [1..MaxConcItems -> ConcShapes]] :
               calls = [p \in Procs |->
                   [data |->
                       [items |-> [k \in 1..n[p] |->
                                      Item(ConcFirstId(p) + k, shape[p][k][1],
                                           shape[p][k][2], shape[p][k][3], "A", 1)],
                        containers |-> << Container(1, "A", MaxConcItems + 1, 1, 1) >>],
                    zone_to_items |-> << >>,
                    zone_idx |-> 0,
                    items_list |-> << >>,
                    item_idx |-> 0,
                    container_face_data |-> << >>,
                    placed_face_data |-> << >>,
                    remaining |-> << >>,
                    all_open_face_placements |-> << >>,
                    unplaced_global |-> << >>,
                    log_entry |-> << >>,
                    logs_data |-> << >>,
                    result |-> << >>,
                    pc |-> "group"]]
    /\ LogInit
    /\ PackIdle
    /\ AllocIdle
    /\ OrientIdle
    /\ DiffIdle
    /\ SearchIdle
    /\ FindIdle

\* lines 150-156
ConcGroup(p) ==
    /\ calls[p].pc = "group"
    /\ calls' = [calls EXCEPT ![p].zone_to_items = zone_to_items_of(calls[p].data.items),
                              ![p].zone_idx = 1,
                              ![p].pc = "zone"]
    /\ UNCHANGED << pack_vars, alloc_vars, log_vars, orient_vars, diff_vars, search_vars, find_vars >>

\* lines 157-169
ConcZone(p) ==
    /\ calls[p].pc = "zone"
    /\ calls[p].zone_idx <= Len(calls[p].zone_to_items)
    /\ LET z == calls[p].zone_to_items[calls[p].zone_idx]
       IN calls' = [calls EXCEPT
              ![p].items_list = sort_by_priority(z.items),
              ![p].container_face_data =
                  container_face_data_of(calls[p].data.containers, z.zone),
              ![p].remaining = << >>,
              ![p].item_idx = 1,
              ![p].pc = "item"]
    /\ UNCHANGED << pack_vars, alloc_vars, log_vars, orient_vars, diff_vars, search_vars, find_vars >>

\* lines 170-188 and 197-198, and lines 37-48 of record_log: the item is
\* placed or left; for a placed item the placement is appended, the log entry
\* is built and appended to LOGS (one list.append), and the face data that
\* lines 190-194 will make of px, py, rw, rh is kept in placed_face_data
ConcPlace(p) ==
    /\ calls[p].pc = "item"
    /\ calls[p].item_idx <= Len(calls[p].items_list)
    /\ LET item == calls[p].items_list[calls[p].item_idx]
           r == place_item(calls[p].container_face_data, item)
       IN IF r.placed
          THEN LET entry == placement_log(item.itemId, r.pdoc[1].containerId)
               IN /\ calls' = [calls EXCEPT
                         ![p].container_face_data =
                             append_placement(calls[p].container_face_data, r.pdoc[1]),
                         ![p].placed_face_data = r.face_data,
                         ![p].log_entry = Some(entry),
                         ![p].pc = "load"]
                  /\ LOGS' = Append(LOGS, entry)
                  /\ UNCHANGED logs_json
          ELSE /\ calls' = [calls EXCEPT
                      ![p].remaining = Append(@, item),
                      ![p].item_idx = @ + 1]
               /\ UNCHANGED log_vars
    /\ UNCHANGED << pack_vars, alloc_vars, orient_vars, diff_vars, search_vars, find_vars >>

\* lines 32-33 of append_log_to_file: load logs.json, append the entry to the
\* loaded list
ConcLoad(p) ==
    /\ calls[p].pc = "load"
    /\ calls' = [calls EXCEPT ![p].logs_data = Append(logs_json, calls[p].log_entry[1]),
                              ![p].pc = "open"]
    /\ UNCHANGED << pack_vars, alloc_vars, log_vars, orient_vars, diff_vars, search_vars, find_vars >>

\* line 22 of save_json: open(filename, "w") truncates logs.json; until it is
\* written load_json finds no JSON in it and returns its default, the empty log
ConcOpen(p) ==
    /\ calls[p].pc = "open"
    /\ logs_json' = << >>
    /\ calls' = [calls EXCEPT ![p].pc = "dump"]
    /\ UNCHANGED << LOGS, pack_vars, alloc_vars, orient_vars, diff_vars, search_vars, find_vars >>

\* line 23 of save_json: the loaded list with the entry is written from the
\* start of the file when the file is closed; a longer text written meanwhile
\* through another handle keeps its tail, which is no JSON any more, and
\* load_json returns its default for it. Then lines 190-196
ConcDump(p) ==
    /\ calls[p].pc = "dump"
    /\ logs_json' = IF Len(logs_json) > Len(calls[p].logs_data)
                    THEN << >>
                    ELSE calls[p].logs_data
    /\ calls' = [calls EXCEPT ![p].container_face_data = calls[p].placed_face_data,
                              ![p].item_idx = @ + 1,
                              ![p].pc = "item"]
    /\ UNCHANGED << LOGS, pack_vars, alloc_vars, orient_vars, diff_vars, search_vars, find_vars >>

\* lines 199-201
ConcZoneEnd(p) ==
    /\ calls[p].pc = "item"
    /\ calls[p].item_idx > Len(calls[p].items_list)
    /\ calls' = [calls EXCEPT
           ![p].all_open_face_placements =
               @ \o face_placements(calls[p].container_face_data, 1),
           ![p].unplaced_global = @ \o calls[p].remaining,
           ![p].zone_idx = @ + 1,
           ![p].pc = "zone"]
    /\ UNCHANGED << pack_vars, alloc_vars, log_vars, orient_vars, diff_vars, search_vars, find_vars >>

\* lines 202-203
ConcReturn(p) ==
    /\ calls[p].pc = "zone"
    /\ calls[p].zone_idx > Len(calls[p].zone_to_items)
    /\ calls' = [calls EXCEPT
           ![p].result = returned_pair(calls[p].all_open_face_placements,
                                       calls[p].unplaced_global),
           ![p].pc = "done"]
    /\ UNCHANGED << pack_vars, alloc_vars, log_vars, orient_vars, diff_vars, search_vars, find_vars >>

ConcNext ==
    \/ \E p \in Procs : ConcGroup(p)
    \/ \E p \in Procs : ConcZone(p)
    \/ \E p \in Procs : ConcPlace(p)
    \/ \E p \in Procs : ConcLoad(p)
    \/ \E p \in Procs : ConcOpen(p)
    \/ \E p \in Procs : ConcDump(p)
    \/ \E p \in Procs : ConcZoneEnd(p)
    \/ \E p \in Procs : ConcReturn(p)

SpecConc == ConcInit /\ [][ConcNext]_vars

\* ------------------------------------------------------------------------
\* find_position_for_rect(free_rects, rw, rh), called on its own
\* ------------------------------------------------------------------------

\* the free rectangles of the lists: two corners, widths and heights in Dims
FindRects == { Rect(x, 0, w, h) : x \in {0, 1}, w \in Dims, h \in Dims }

FindInit ==
    /\ \E n \in 0..MaxFreeRects : find_free_rects \in [1..n -> FindRects]
    /\ find_rw \in Dims
    /\ find_rh \in Dims
    /\ find_result = << >>
    /\ find_pc = "call"
    /\ PackIdle
    /\ AllocIdle
    /\ LogInit
    /\ OrientIdle
    /\ DiffIdle
    /\ SearchIdle
    /\ ConcIdle

FindCall ==
    /\ find_pc = "call"
    /\ find_result' = find_position_for_rect(find_free_rects, find_rw, find_rh)
    /\ find_pc' = "done"
    /\ UNCHANGED << find_free_rects, find_rw, find_rh >>
    /\ UNCHANGED << pack_vars, alloc_vars, log_vars, orient_vars, diff_vars, search_vars, conc_vars >>

FindNext == FindCall

SpecFind == FindInit /\ [][FindNext]_vars

\* ------------------------------------------------------------------------
\* Vocabulary of the properties
\* ------------------------------------------------------------------------

\* the footprint of a placement on the face: (width, height) plane
Footprint(p) ==
    Rect(p.position.startCoordinates.width,
         p.position.startCoordinates.height,
         p.position.endCoordinates.width - p.position.startCoordinates.width,
         p.position.endCoordinates.height - p.position.startCoordinates.height)

\* two rectangles share a region of positive area
Overlap(a, b) ==
    /\ a.x < b.x + b.w
    /\ b.x < a.x + a.w
    /\ a.y < b.y + b.h
    /\ b.y < a.y + a.h

\* rectangle a lies inside rectangle b (edges inside or equal)
Inside(a, b) ==
    /\ a.x >= b.x
    /\ a.y >= b.y
    /\ a.x + a.w <= b.x + b.w
    /\ a.y + a.h <= b.y + b.h

Elements(seq) == { seq[k] : k \in 1..Len(seq) }

RECURSIVE SumAreas(_)
SumAreas(rects) ==
    IF rects = << >>
    THEN 0
    ELSE rects[1].w * rects[1].h + SumAreas(Tail(rects))

Footprints(placed) == [k \in 1..Len(placed) |-> Footprint(placed[k])]

\* the placements of item itemId in a placement list
PlacementsOf(placed, itemId) == { p \in Elements(placed) : p.itemId = itemId }

IsPlaced(placed, itemId) == PlacementsOf(placed, itemId) /= {}

\* ------------------------------------------------------------------------
\* C1
\* ------------------------------------------------------------------------

\* C1: when place_items_optimally has returned, the second element of the
\* returned pair is the list of exactly the items that no container of their
\* zone accepted, so every input item is in the returned placements or in the
\* returned unplaced list.
C1_UnplacedItemsReturned ==
    alloc_pc = "done" =>
        /\ \A item \in Elements(data.items) :
               \/ IsPlaced(alloc_result[1], item.itemId)
               \/ \E k \in 1..Len(alloc_result[2]) :
                      alloc_result[2][k].itemId = item.itemId
        /\ \A k \in 1..Len(alloc_result[2]) :
               ~IsPlaced(alloc_result[1], alloc_result[2][k].itemId)

\* ------------------------------------------------------------------------
\* C2
\* ------------------------------------------------------------------------

ExampleA == CHOOSE p \in Elements(alloc_result[1]) : p.itemId = 1

ExampleB == CHOOSE p \in Elements(alloc_result[1]) : p.itemId = 2

\* C2 as stated: for the example batch, A is placed at (0,0) with a footprint
\* of area 30*40 = 1200 and B is placed at (30,0) or at another free rectangle,
\* its footprint not overlapping A's.
C2_ExampleAsStated ==
    (alloc_pc = "done" /\ data = ExampleData) =>
        /\ IsPlaced(alloc_result[1], 1)
        /\ IsPlaced(alloc_result[1], 2)
        /\ Footprint(ExampleA).x = 0
        /\ Footprint(ExampleA).y = 0
        /\ Footprint(ExampleA).w * Footprint(ExampleA).h = 30 * 40
        /\ ~Overlap(Footprint(ExampleA), Footprint(ExampleB))

\* C2 as amended: for the example batch, A is placed at (0,0) with the
\* footprint 30 x 20 of area 600 (the orientation of depth 40, the feasible
\* candidate of smallest area), and B is placed at (30,0) with the footprint
\* 50 x 10 (depth 50), its footprint not overlapping A's.
C2_ExampleAsComputed ==
    (alloc_pc = "done" /\ data = ExampleData) =>
        /\ Len(alloc_result[1]) = 2
        /\ Footprint(ExampleA) = Rect(0, 0, 30, 20)
        /\ ExampleA.position.startCoordinates.depth = 0
        /\ ExampleA.position.endCoordinates.depth = 40
        /\ Footprint(ExampleB) = Rect(30, 0, 50, 10)
        /\ ExampleB.position.startCoordinates.depth = 0
        /\ ExampleB.position.endCoordinates.depth = 50
        /\ ~Overlap(Footprint(ExampleA), Footprint(ExampleB))

\* the example batch has been allocated and both items are in the result
C2_ExampleAllocated ==
    /\ alloc_pc = "done"
    /\ data = ExampleData
    /\ IsPlaced(alloc_result[1], 1)
    /\ IsPlaced(alloc_result[1], 2)

\* ------------------------------------------------------------------------
\* C3
\* ------------------------------------------------------------------------

FaceArea == container.width * container.height

\* the unit cells of the face of the container being packed
FaceCells == (0..(container.width - 1)) \X (0..(container.height - 1))

CellIn(cell, r) ==
    /\ r.x <= cell[1]
    /\ cell[1] < r.x + r.w
    /\ r.y <= cell[2]
    /\ cell[2] < r.y + r.h

\* C3 as stated: after any sequence of placements on the face, the areas of
\* the free rectangles and of the placed footprints sum to width*height.
C3_AreaConservation ==
    SumAreas(free_rects) + SumAreas(Footprints(placements)) = FaceArea

\* C3 as amended: after any sequence of placements on the face, the free
\* rectangles and the placed footprints cover the face with no gap, no placed
\* footprint overlaps another placed footprint or a free rectangle, and (the
\* free rectangles being allowed to overlap each other) the areas sum to at
\* least width*height.
C3_CoverWithoutGap ==
    LET placed == Footprints(placements)
    IN /\ \A cell \in FaceCells :
              \/ \E k \in 1..Len(free_rects) : CellIn(cell, free_rects[k])
              \/ \E k \in 1..Len(placed) : CellIn(cell, placed[k])
       /\ \A k, l \in 1..Len(placed) : k /= l => ~Overlap(placed[k], placed[l])
       /\ \A k \in 1..Len(placed) : \A l \in 1..Len(free_rects) :
              ~Overlap(placed[k], free_rects[l])
       /\ SumAreas(free_rects) + SumAreas(placed) >= FaceArea

\* two placements have been made and the free rectangles overlap each other:
\* the areas sum to more than the face
C3_OverlappingFreeRectangles ==
    /\ Len(placements) >= 2
    /\ \E k, l \in 1..Len(free_rects) : k /= l /\ Overlap(free_rects[k], free_rects[l])
    /\ SumAreas(free_rects) + SumAreas(Footprints(placements)) > FaceArea

\* ------------------------------------------------------------------------
\* C4
\* ------------------------------------------------------------------------

ItemOf(itemId) == CHOOSE it \in Elements(data.items) : it.itemId = itemId

ContainerOf(cid) == CHOOSE c \in Elements(data.containers) : c.containerId = cid

\* C4: every placement of the returned list starts at depth 0 and ends at the
\* depth of the orientation selected for its item in its container, which is
\* at most the container's depth; its footprint lies inside the container's
\* face; and no two placements of one container overlap with positive area.
C4_GeometricConsistency ==
    alloc_pc = "done" =>
        LET placed == alloc_result[1]
        IN \A k \in 1..Len(placed) :
               LET p == placed[k]
                   cont == ContainerOf(p.containerId)
                   orient == get_best_orientation(ItemOf(p.itemId), cont.depth)
               IN /\ p.position.startCoordinates.depth = 0
                  /\ orient /= None
                  /\ p.position.endCoordinates.depth = orient[3]
                  /\ Footprint(p).w = orient[1]
                  /\ Footprint(p).h = orient[2]
                  /\ p.position.endCoordinates.depth <= cont.depth
                  /\ Inside(Footprint(p), Rect(0, 0, cont.width, cont.height))
                  /\ \A l \in 1..Len(placed) :
                         (l /= k /\ placed[l].containerId = p.containerId)
                             => ~Overlap(Footprint(p), Footprint(placed[l]))

\* a returned list with two placements in one container and a third elsewhere
C4_SharedContainer ==
    /\ alloc_pc = "done"
    /\ \E k, l, m \in 1..Len(alloc_result[1]) :
           /\ k /= l
           /\ alloc_result[1][k].containerId = alloc_result[1][l].containerId
           /\ alloc_result[1][m].containerId /= alloc_result[1][k].containerId

\* ------------------------------------------------------------------------
\* C5
\* ------------------------------------------------------------------------

\* the batch with the priorities of items i and j exchanged
SwapPriority(batch, i, j) ==
    [batch EXCEPT !.items =
        [k \in 1..Len(batch.items) |->
            IF k = i THEN [batch.items[i] EXCEPT !.priority = batch.items[j].priority]
            ELSE IF k = j
                 THEN [batch.items[j] EXCEPT !.priority = batch.items[i].priority]
                 ELSE batch.items[k]]]

\* the pairs of items of one zone whose relative priority can be reversed
SwapPairs ==
    { ij \in (1..Len(data.items)) \X (1..Len(data.items)) :
        /\ ij[1] < ij[2]
        /\ data.items[ij[1]].preferredZone = data.items[ij[2]].preferredZone
        /\ data.items[ij[1]].priority /= data.items[ij[2]].priority }

\* item k is processed before item x when x has priority q
Before(k, x, q) ==
    \/ data.items[k].priority > q
    \/ data.items[k].priority = q /\ k < x

\* item k is processed before both i and j, before and after their swap
BeforeBoth(k, i, j) ==
    LET pi == data.items[i].priority
        pj == data.items[j].priority
    IN /\ Before(k, i, pi)
       /\ Before(k, j, pj)
       /\ Before(k, i, pj)
       /\ Before(k, j, pi)

\* C5 as stated: when the relative priority of two items of one zone is
\* reversed and the allocator runs again, every third item placed in the first
\* run is placed in the second run too.
C5_PriorityMonotone ==
    alloc_pc = "done" =>
        \A ij \in SwapPairs :
            LET second == place_items_optimally(SwapPriority(data, ij[1], ij[2]))[1]
            IN \A k \in 1..Len(data.items) :
                   (k /= ij[1] /\ k /= ij[2] /\ IsPlaced(alloc_result[1], k))
                       => IsPlaced(second, k)

\* C5 as amended: when the relative priority of two items of one zone is
\* reversed and the allocator runs again, every third item that is processed
\* before both of them in both runs (it has a higher priority than both, or
\* ties with one and precedes it in the input), and every item of another
\* zone, gets the same placement in the second run as in the first.
C5_EarlierItemsUnaffected ==
    alloc_pc = "done" =>
        \A ij \in SwapPairs :
            LET second == place_items_optimally(SwapPriority(data, ij[1], ij[2]))[1]
            IN \A k \in 1..Len(data.items) :
                   (/\ k /= ij[1]
                    /\ k /= ij[2]
                    /\ \/ data.items[k].preferredZone /= data.items[ij[1]].preferredZone
                       \/ BeforeBoth(k, ij[1], ij[2]))
                       => PlacementsOf(second, k) = PlacementsOf(alloc_result[1], k)

\* a finished run with a swappable pair, a placed third item processed before
\* both, and a placed item of another zone
C5_SwapWithEarlierItem ==
    /\ alloc_pc = "done"
    /\ \E ij \in SwapPairs : \E k \in 1..Len(data.items) :
           /\ k /= ij[1]
           /\ k /= ij[2]
           /\ BeforeBoth(k, ij[1], ij[2])
           /\ data.items[k].preferredZone = data.items[ij[1]].preferredZone
           /\ IsPlaced(alloc_result[1], k)
           /\ IsPlaced(alloc_result[1], ij[1]) /= IsPlaced(alloc_result[1], ij[2])
\* ------------------------------------------------------------------------
\* C6
\* ------------------------------------------------------------------------

\* the placements committed so far in the zone being processed
ZonePlaced == UNION { Elements(container_face_data[c].placements) :
                        c \in 1..Len(container_face_data) }

\* the batch holding only the first k items of the processing order of the
\* zone, in their input order, with all the containers
PrefixBatch(k) ==
    LET ids == { items_list[m].itemId : m \in 1..k }
        kept(it) == it.itemId \in ids
    IN [items |-> SelectSeq(data.items, kept), containers |-> data.containers]

\* C6: the items of a zone are processed in priority-descending order, ties in
\* input order (an item's identifier is its position in the input), and for
\* every k the placements of the first k items processed are those the
\* allocator returns when it is given only these k items.
C6_PrefixIndependent ==
    alloc_pc = "item" =>
        /\ \A a, b \in 1..Len(items_list) :
               a < b =>
                   \/ items_list[a].priority > items_list[b].priority
                   \/ /\ items_list[a].priority = items_list[b].priority
                      /\ items_list[a].itemId < items_list[b].itemId
        /\ Elements(items_list) =
               { it \in Elements(data.items) :
                   it.preferredZone = zone_to_items[zone_idx].zone }
        /\ \A k \in 0..(item_idx - 1) :
               LET ids == { items_list[m].itemId : m \in 1..k }
               IN { p \in ZonePlaced : p.itemId \in ids }
                      = Elements(place_items_optimally(PrefixBatch(k))[1])

\* three items of one zone have been processed, the first two tie in priority,
\* the first and the third are placed and the second is not
C6_LaterItemPlaced ==
    /\ alloc_pc = "item"
    /\ item_idx = 4
    /\ items_list[1].priority = items_list[2].priority
    /\ \E p \in ZonePlaced : p.itemId = items_list[1].itemId
    /\ \A p \in ZonePlaced : p.itemId /= items_list[2].itemId
    /\ \E p \in ZonePlaced : p.itemId = items_list[3].itemId

\* ------------------------------------------------------------------------
\* C7
\* ------------------------------------------------------------------------

\* the three candidates of the claim: (footprint w x h, depth d),
\* (footprint w x d, depth h), (footprint h x d, depth w)
Candidates ==
    << << orient_item.width, orient_item.height, orient_item.depth >>,
       << orient_item.width, orient_item.depth, orient_item.height >>,
       << orient_item.height, orient_item.depth, orient_item.width >> >>

Feasible == { i \in 1..3 : Candidates[i][3] <= orient_depth }

CandidateArea(i) == Candidates[i][1] * Candidates[i][2]

\* C7: get_best_orientation returns None exactly when all three candidate
\* depths exceed the container depth, and otherwise the feasible candidate of
\* minimum footprint area, the first listed among those of minimum area.
C7_BestOrientation ==
    orient_pc = "done" =>
        /\ (orient_result = None) <=> (Feasible = {})
        /\ Feasible /= {} =>
               \E i \in Feasible :
                   /\ orient_result = Candidates[i]
                   /\ \A j \in Feasible : CandidateArea(i) <= CandidateArea(j)
                   /\ \A j \in Feasible : j < i => CandidateArea(j) > CandidateArea(i)

\* a call where two different feasible candidates tie for the minimum area and
\* a candidate of smaller area is infeasible
C7_TieAmongFeasible ==
    /\ orient_pc = "done"
    /\ \E i, j \in Feasible :
           /\ i < j
           /\ CandidateArea(i) = CandidateArea(j)
           /\ Candidates[i] /= Candidates[j]
           /\ orient_result = Candidates[i]
    /\ \E m \in (1..3) \ Feasible : CandidateArea(m) < CandidateArea(1)

\* ------------------------------------------------------------------------
\* C8
\* ------------------------------------------------------------------------

\* C8: after every placement, no free rectangle of the container's list is
\* contained in another rectangle of the list.
C8_NoContainedFreeRectangle ==
    \A k, l \in 1..Len(free_rects) :
        k /= l => ~Inside(free_rects[k], free_rects[l])

\* the 3 x 3 face after two 1 x 1 footprints at (0,0) and (1,0): the second
\* split produced the rectangle (1,1,2,2), which lies inside (0,1,3,2) and was
\* discarded
C8_AfterPrune ==
    /\ container.width = 3
    /\ container.height = 3
    /\ Footprints(placements) = << Rect(0, 0, 1, 1), Rect(1, 0, 1, 1) >>
    /\ free_rects = << Rect(2, 0, 1, 3), Rect(0, 1, 3, 2) >>

\* ------------------------------------------------------------------------
\* C9
\* ------------------------------------------------------------------------

\* a snapshot as a mapping from item identifier to container and box
LayoutOf(snapshot) ==
    [id \in { p.itemId : p \in Elements(snapshot) } |->
        LET p == CHOOSE q \in Elements(snapshot) : q.itemId = id
        IN [containerId |-> p.containerId, position |-> p.position]]

\* the layout after one step: place adds the item at its destination, move
\* replaces its container and box by the destination, remove deletes it
ApplyStep(layout, st) ==
    IF st.action = "remove"
    THEN [id \in DOMAIN layout \ { st.itemId } |-> layout[id]]
    ELSE [id \in DOMAIN layout \cup { st.itemId } |->
             IF id = st.itemId
             THEN [containerId |-> st.toContainer, position |-> st.toPosition]
             ELSE layout[id]]

RECURSIVE ApplySteps(_, _)
ApplySteps(layout, steps) ==
    IF steps = << >>
    THEN layout
    ELSE ApplySteps(ApplyStep(layout, steps[1]), Tail(steps))

\* C9: applying the returned steps in order to the old snapshot yields the new
\* snapshot as a mapping from item identifier to container and box.
C9_StepsTransformOldIntoNew ==
    diff_pc = "done" =>
        ApplySteps(LayoutOf(old_placements), rearrangements) = LayoutOf(new_placements)

\* a diff that holds a place, a move and a remove step
C9_AllThreeActions ==
    /\ diff_pc = "done"
    /\ { rearrangements[k].action : k \in 1..Len(rearrangements) }
           = { "place", "move", "remove" }

\* ------------------------------------------------------------------------
\* C10
\* ------------------------------------------------------------------------

IdsOf(snapshot) == { p.itemId : p \in Elements(snapshot) }

IndexIn(snapshot, id) == CHOOSE k \in 1..Len(snapshot) : snapshot[k].itemId = id

EntryOf(snapshot, id) == snapshot[IndexIn(snapshot, id)]

\* the items that need a step: new, changed in container or box, dropped
NewIds == IdsOf(new_placements) \ IdsOf(old_placements)

ChangedIds ==
    { id \in IdsOf(new_placements) \cap IdsOf(old_placements) :
        \/ EntryOf(old_placements, id).containerId
               /= EntryOf(new_placements, id).containerId
        \/ EntryOf(old_placements, id).position
               /= EntryOf(new_placements, id).position }

DroppedIds == IdsOf(old_placements) \ IdsOf(new_placements)

\* C10: the differ emits exactly one step per new item (place), changed item
\* (move) and dropped item (remove) and none for an unchanged item; the place
\* and move steps come first, in the new snapshot's order, then the remove
\* steps in the old snapshot's order; the i-th step carries the number i.  So
\* diff(empty, X) is |X| place steps in X's order and diff(X, empty) is |X|
\* remove steps in X's order.
C10_StepsOrderedAndNumbered ==
    diff_pc = "done" =>
        LET steps == rearrangements
            n == Len(steps)
        IN /\ n = Cardinality(NewIds) + Cardinality(ChangedIds)
                      + Cardinality(DroppedIds)
           /\ \A id \in NewIds :
                  \E k \in 1..n : steps[k].itemId = id /\ steps[k].action = "place"
           /\ \A id \in ChangedIds :
                  \E k \in 1..n : steps[k].itemId = id /\ steps[k].action = "move"
           /\ \A id \in DroppedIds :
                  \E k \in 1..n : steps[k].itemId = id /\ steps[k].action = "remove"
           /\ \A k \in 1..n : steps[k].step = k
           /\ \A k, l \in 1..n :
                  k < l =>
                      /\ steps[k].action = "remove" => steps[l].action = "remove"
                      /\ steps[l].action /= "remove" =>
                             IndexIn(new_placements, steps[k].itemId)
                                 < IndexIn(new_placements, steps[l].itemId)
                      /\ steps[k].action = "remove" =>
                             IndexIn(old_placements, steps[k].itemId)
                                 < IndexIn(old_placements, steps[l].itemId)
           /\ old_placements = << >> =>
                  /\ n = Len(new_placements)
                  /\ \A k \in 1..n :
                         /\ steps[k].action = "place"
                         /\ steps[k].itemId = new_placements[k].itemId
           /\ new_placements = << >> =>
                  /\ n = Len(old_placements)
                  /\ \A k \in 1..n :
                         /\ steps[k].action = "remove"
                         /\ steps[k].itemId = old_placements[k].itemId

\* a diff of three steps: a move and a place, in the new snapshot's order,
\* then a remove
C10_MovePlaceRemove ==
    /\ diff_pc = "done"
    /\ Len(rearrangements) = 3
    /\ rearrangements[1].action = "move"
    /\ rearrangements[2].action = "place"
    /\ rearrangements[3].action = "remove"

\* ------------------------------------------------------------------------
\* C11
\* ------------------------------------------------------------------------

\* C11: the differ given the same snapshot twice returns an empty step list.
C11_SameSnapshotNoSteps ==
    (diff_pc = "done" /\ old_placements = new_placements) => rearrangements = << >>

\* the differ has returned for a snapshot of two placements given twice
C11_SameSnapshotDiffed ==
    /\ diff_pc = "done"
    /\ old_placements = new_placements
    /\ Len(old_placements) = 2

\* ------------------------------------------------------------------------
\* C12: the retrieval plan of search_item
\* ------------------------------------------------------------------------

\* the placement the search found: the first one carrying the identifier
FoundTarget ==
    LET list == placement_json[1]
        k == CHOOSE k \in 1..Len(list) :
                 /\ list[k].itemId = search_args.itemId[1]
                 /\ \A j \in 1..(k - 1) : list[j].itemId /= search_args.itemId[1]
    IN list[k]

\* the positions in placement.json of the placements that block target: when
\* the target is behind the open face, the other placements of its container
\* that start at the open face and whose footprint overlaps the target's
BlockingPositions(list, target) ==
    IF target.position.startCoordinates.depth = 0
    THEN {}
    ELSE { k \in 1..Len(list) :
             /\ list[k] /= target
             /\ list[k].containerId = target.containerId
             /\ list[k].position.startCoordinates.depth = 0
             /\ Overlap(Footprint(list[k]), Footprint(target)) }

\* the k-th smallest element of a set of numbers
Nth(S, k) == CHOOSE x \in S : Cardinality({ y \in S : y < x }) = k - 1

\* C12: the plan for a found target is one remove step with placeBack true
\* per blocking placement, in placement-list order, then exactly one retrieve
\* step for the target; no placement is blocking when the target starts at
\* depth 0, otherwise the blocking placements are the other placements of the
\* same container with depth-start 0 whose footprint strictly overlaps the
\* target's
C12_RetrievalPlan ==
    (search_pc = "done" /\ search_response.found) =>
        LET list == placement_json[1]
            target == FoundTarget
            blocking == BlockingPositions(list, target)
            n == Cardinality(blocking)
            steps == search_response.retrievalSteps
        IN /\ Len(steps) = n + 1
           /\ \A k \in 1..n :
                  /\ steps[k].action = "remove"
                  /\ steps[k].placeBack = TRUE
                  /\ steps[k].itemId = list[Nth(blocking, k)].itemId
           /\ steps[n + 1].action = "retrieve"
           /\ steps[n + 1].placeBack = FALSE
           /\ steps[n + 1].itemId = target.itemId

\* a target behind the open face was found with two blocking placements in
\* front of it, so the plan is remove, remove, retrieve
C12_TwoBlockingPlacements ==
    /\ search_pc = "done"
    /\ search_response.found
    /\ FoundTarget.position.startCoordinates.depth > 0
    /\ Len(search_response.retrievalSteps) = 3

\* ------------------------------------------------------------------------
\* C13: the allocator and a log write that fails
\* ------------------------------------------------------------------------

\* C13: the allocator does not depend on the persistence of its log events:
\* when the write of a NEW_PLACEMENT event to logs.json fails, the allocation
\* is not ended by the failure; it goes on with the remaining items and
\* returns the placements of the batch
C13_LogFailureTolerated ==
    alloc_pc /= "raised"

\* ------------------------------------------------------------------------
\* C14: two concurrent invocations of the allocator
\* ------------------------------------------------------------------------

\* how many entries of a log are the NEW_PLACEMENT event of placement pl
EventsOf(log, pl) ==
    Cardinality({ k \in 1..Len(log) :
                    log[k] = placement_log(pl.itemId, pl.containerId) })

\* C14: two concurrent invocations on snapshots of their own share no
\* mutable state: when both have returned, each has returned the placements
\* it returns when run alone, and logs.json holds exactly one NEW_PLACEMENT
\* event for every placement either of them committed
C14_NoSharedState ==
    (\A p \in Procs : calls /= << >> /\ calls[p].pc = "done") =>
        \A p \in Procs :
            /\ calls[p].result = place_items_optimally(calls[p].data)
            /\ \A k \in 1..Len(calls[p].result[1]) :
                   EventsOf(logs_json, calls[p].result[1][k]) = 1

\* ------------------------------------------------------------------------
\* C15: the container an item goes into
\* ------------------------------------------------------------------------

\* the placements and the free rectangles the face data holds for container cid
PlacementsIn(face_data, cid) ==
    (CHOOSE d \in Elements(face_data) : d.cid = cid).placements

FreeRectsIn(face_data, cid) ==
    (CHOOSE d \in Elements(face_data) : d.cid = cid).free_rects

\* the containers of the zone of an item
ZoneContainers(item) ==
    { c \in Elements(data.containers) : c.zone = item.preferredZone }

\* the containers of the item's zone that take the item now: the selected
\* orientation fits the depth and some free rectangle is at least as wide and
\* as high as its footprint
Accepting(item) ==
    { c \in ZoneContainers(item) :
        LET orient == get_best_orientation(item, c.depth)
        IN /\ orient /= None
           /\ \E r \in Elements(FreeRectsIn(container_face_data, c.containerId)) :
                  r.w >= orient[1] /\ r.h >= orient[2] }

\* one turn of the item loop: the item goes into the accepting container of
\* the smallest identifier and into no other, or, when no container of its
\* zone accepts it, into the list of the unplaced items
C15_ItemTurn ==
    (alloc_pc = "item" /\ item_idx <= Len(items_list) /\ item_idx' = item_idx + 1) =>
        LET item == items_list[item_idx]
            acc == Accepting(item)
            before(c) == PlacementsIn(container_face_data, c.containerId)
            after(c) == PlacementsIn(container_face_data', c.containerId)
        IN /\ { d.cid : d \in Elements(container_face_data') } =
                  { c.containerId : c \in ZoneContainers(item) }
           /\ IF acc = {}
              THEN /\ remaining' = Append(remaining, item)
                   /\ \A c \in ZoneContainers(item) : after(c) = before(c)
              ELSE LET first == CHOOSE c \in acc :
                                    \A d \in acc : c.containerId <= d.containerId
                   IN /\ remaining' = remaining
                      /\ Len(after(first)) = Len(before(first)) + 1
                      /\ SubSeq(after(first), 1, Len(before(first))) = before(first)
                      /\ after(first)[Len(after(first))].itemId = item.itemId
                      /\ after(first)[Len(after(first))].containerId = first.containerId
                      /\ \A c \in ZoneContainers(item) \ {first} : after(c) = before(c)

\* C15: each item the allocator places goes into the first container, in
\* ascending identifier order among the containers of the item's preferred
\* zone, for which the selected orientation is depth-feasible and some current
\* free rectangle is at least as wide and as high as the footprint; it is
\* never placed in a container of another zone, and it is left unplaced only
\* if no container of its zone satisfies the condition at its turn
C15_FirstAcceptingContainer == [][C15_ItemTurn]_vars

\* the allocator has returned a placement in container 2 of an item that
\* container 1, of the same zone and earlier in identifier order, is not deep
\* enough for
C15_EarlierContainerSkipped ==
    /\ alloc_pc = "done"
    /\ \E k \in 1..Len(alloc_result[1]) :
           LET p == alloc_result[1][k]
           IN /\ p.containerId = 2
              /\ \E c \in Elements(data.containers) :
                     /\ c.containerId = 1
                     /\ c.zone = ItemOf(p.itemId).preferredZone
                     /\ get_best_orientation(ItemOf(p.itemId), c.depth) = None

\* ------------------------------------------------------------------------
\* C16: the free rectangle find_position_for_rect selects
\* ------------------------------------------------------------------------

\* the positions of the free rectangles the footprint fits in
Qualifying ==
    { i \in 1..Len(find_free_rects) :
        find_free_rects[i].w >= find_rw /\ find_free_rects[i].h >= find_rh }

Leftover(i) == find_free_rects[i].w * find_free_rects[i].h - find_rw * find_rh

\* C16: find_position_for_rect returns no rectangle exactly when no free
\* rectangle is at least as wide and as high as the footprint; otherwise it
\* returns the corner of the qualifying free rectangle of minimal leftover
\* area, the earliest in the list among those of minimal leftover
C16_BestFit ==
    find_pc = "done" =>
        /\ (find_result.best_rect = None) <=> (Qualifying = {})
        /\ Qualifying = {} => find_result = NoPosition
        /\ Qualifying /= {} =>
               \E i \in Qualifying :
                   /\ \A j \in Qualifying : Leftover(i) <= Leftover(j)
                   /\ \A j \in Qualifying : j < i => Leftover(j) > Leftover(i)
                   /\ find_result.best_rect = Some(find_free_rects[i])
                   /\ find_result.best_x = Some(find_free_rects[i].x)
                   /\ find_result.best_y = Some(find_free_rects[i].y)
                   /\ find_result.best_score = Some(Leftover(i))

\* a call where two qualifying rectangles at different corners tie for the
\* minimal leftover and a third, earlier one has a larger leftover
C16_TieAfterWorseFit ==
    /\ find_pc = "done"
    /\ \E i, j, k \in Qualifying :
           /\ i < j /\ j < k
           /\ Leftover(j) = Leftover(k)
           /\ Leftover(i) > Leftover(j)
           /\ find_free_rects[j].x /= find_free_rects[k].x
           /\ find_result.best_x = Some(find_free_rects[j].x)

\* ------------------------------------------------------------------------
\* C17: the free rectangles and the placed footprints tile the face
\* ------------------------------------------------------------------------

\* the unit cells of the face that lie in some rectangle of a list
CellsOf(rects) ==
    { cell \in FaceCells : \E k \in 1..Len(rects) : CellIn(cell, rects[k]) }

\* in every state every cell of the face is in a placed footprint or in a
\* free rectangle, and none is in both
C17_Tiled ==
    /\ CellsOf(free_rects) \cup CellsOf(Footprints(placements)) = FaceCells
    /\ CellsOf(free_rects) \cap CellsOf(Footprints(placements)) = {}

\* a placement: the list made of the splits of the free rectangles holds no
\* rectangle twice, pruning it keeps its union, and the union of the free
\* rectangles after the placement is the union before it minus the footprint
C17_Placement ==
    (pack_pc = "loop" /\ Len(placements') = Len(placements) + 1) =>
        LET placed_rect == Footprint(placements'[Len(placements')])
            new_free == split_all(free_rects, placed_rect, 1)
        IN /\ \A k, l \in 1..Len(new_free) : k /= l => new_free[k] /= new_free[l]
           /\ \A k \in 1..Len(free_rects') : free_rects'[k] \in Elements(new_free)
           /\ CellsOf(free_rects') = CellsOf(new_free)
           /\ CellsOf(free_rects') = CellsOf(free_rects) \ CellsOf(<< placed_rect >>)

\* C17: after any sequence of placements on one container's face, every point
\* of the face is covered by a placed footprint or by a free rectangle and no
\* free rectangle intersects a placed footprint; the list of free rectangles
\* never holds two identical rectangles before it is pruned, so its union is
\* the same before and after pruning, and the union after a placement is the
\* union before it minus the placed footprint
C17_FaceTiled == C17_Tiled /\ [][C17_Tiled' /\ C17_Placement]_vars

\* three footprints are placed on a face of nine cells and part of the face is
\* still free, in two free rectangles that overlap each other
C17_ThreePlacedFreeLeft ==
    /\ FaceArea = 9
    /\ Len(placements) = 3
    /\ pack_pc = "loop"
    /\ \E k, l \in 1..Len(free_rects) : k /= l /\ Overlap(free_rects[k], free_rects[l])
    /\ C17_Tiled

====
